---- MODULE Spec2Model ----
(***************************************************************************)
(* Verification model of the LoRaWAN ADR reinforcement-learning           *)
(* controller: the LP_MAB exponential-weights policy, the Python socket   *)
(* server that serves it, the NS-3 client loops that talk to it, and the  *)
(* AdrRL component that requests TP/DR over a socket.                      *)
(*                                                                         *)
(* Numbers.  The Python code computes in float64.  Here a real v is the   *)
(* integer round(v * Scale).  The entries of `weights` are held as their  *)
(* natural logarithm (fixed point), so `weights[a] *= exp(x)` is           *)
(* `weights[a] + x`; float64 overflow (+inf), underflow (0.0) and nan are *)
(* kept as the three values PosInf, NegInf and NaN.                        *)
(***************************************************************************)
EXTENDS Integers, Sequences, FiniteSets, TLC

----------------------------------------------------------------------------
(* Bounds of the model *)

NumActions == 3
MaxUpdates == 2
HugeReward == 8000

----------------------------------------------------------------------------
(* Fixed-point float64 stand-in *)

Scale == 10000

\* ln of the largest finite float64 (1.797e308) and of the smallest
\* positive one (4.9e-324), in units of 1/Scale
LogMax == 7097827
LogMin == -7451332

PosInf == 1000000000
NegInf == -1000000000
NaN == 2000000000

IsFinite(v) == v # PosInf /\ v # NegInf /\ v # NaN

\* a / b rounded to the nearest integer (b > 0)
RDiv(a, b) == (2 * a + b) \div (2 * b)

RECURSIVE Horner(_, _, _)
\* 1 - (y/k)(1 - (y/(k+1))(1 - ...)), y in units of 1/Scale, result *10^5
Horner(y, k, last) ==
    IF k > last THEN 100000
    ELSE 100000 - RDiv(y * Horner(y, k + 1, last), k * Scale)

\* exp(-n) * Scale for n = 0..10
ExpTable == <<10000, 3679, 1353, 498, 183, 67, 25, 9, 3, 1, 0>>

\* exp(d / Scale) * Scale for d <= 0
ExpNeg(d) ==
    LET n == (-d) \div Scale
        f == (-d) % Scale
    IN IF n > 10 THEN 0
       ELSE RDiv(ExpTable[n + 1] * Horner(f, 1, 10), 100000)

RECURSIVE SumOver(_, _)
SumOver(f, S) ==
    IF S = {} THEN 0
    ELSE LET i == CHOOSE j \in S : TRUE IN f[i] + SumOver(f, S \ {i})

Sum(f) == SumOver(f, DOMAIN f)

MaxOf(S) == CHOOSE m \in S : \A n \in S : n <= m

----------------------------------------------------------------------------
(* class LP_MAB *)

Arms == 0 .. (NumActions - 1)

\* the values of gamma a controller is constructed with: the default 0.1,
\* 0.5 and 1.0
Gammas == {Scale \div 10, Scale \div 2, Scale}

VARIABLES
    gamma,           \* self.gamma * Scale
    weights,         \* ln(self.weights[i]) * Scale, or PosInf / NegInf / NaN
    probabilities,   \* self.probabilities[i] * Scale, or NaN
    action_counts,   \* self.action_counts[i]
    raised           \* exception raised by the last call on the policy

\* LP_MAB.__init__
InitPolicy(g) ==
    /\ gamma = g
    /\ weights = [i \in Arms |-> 0]
    /\ probabilities = [i \in Arms |-> RDiv(Scale, NumActions)]
    /\ action_counts = [i \in Arms |-> 0]
    /\ raised = "none"

\* Python / numpy indexing: -A..-1 wrap around, anything else outside 0..A-1
\* raises IndexError
IndexOk(action) == action >= -NumActions /\ action < NumActions
Index(action) == IF action < 0 THEN action + NumActions ELSE action

\* the division by num_actions is left out of the argument of np.exp
Exponent_Undivided(g, reward, p) ==
    IF p = NaN THEN NaN
    ELSE IF p = 0
         THEN (IF reward > 0 THEN PosInf ELSE IF reward < 0 THEN NegInf ELSE NaN)
         ELSE RDiv(Scale * g, p) * reward

\* gamma * (reward / p) / num_actions, the argument of np.exp
Exponent(g, reward, p) ==
    IF p = NaN THEN NaN
    ELSE IF p = 0
         THEN (IF reward > 0 THEN PosInf ELSE IF reward < 0 THEN NegInf ELSE NaN)
         ELSE RDiv(RDiv(Scale * g, p) * reward, NumActions)

\* w * np.exp(x) on the logarithm lw of w
MulExp(lw, x) ==
    IF lw = NaN \/ x = NaN THEN NaN
    ELSE IF x > LogMax
         THEN (IF lw = NegInf THEN NaN ELSE PosInf)
    ELSE IF x < LogMin
         THEN (IF lw = PosInf THEN NaN ELSE NegInf)
    ELSE IF lw = PosInf \/ lw = NegInf THEN lw
    ELSE IF lw + x > LogMax THEN PosInf
    ELSE IF lw + x < LogMin THEN NegInf
    ELSE lw + x

\* np.sum(weights) is +inf although every weight is finite
SumOverflows(w) ==
    Sum([i \in Arms |->
           IF w[i] = NegInf \/ w[i] < LogMax - 10 * Scale THEN 0
           ELSE ExpNeg(w[i] - LogMax)]) > Scale

\* a numpy array holds its elements computed: f with every f[i] evaluated
Array(f) == f @@ <<>>

\* weights[i] / max(weights), times Scale
Relative(w, m) ==
    Array([i \in Arms |-> IF w[i] = NegInf THEN 0 ELSE ExpNeg(w[i] - m)])

\* the factor (1 - gamma) is left out of the mixture
Mixture_NoDiscount(g, e, se, over) ==
    Array([i \in Arms |->
        IF over THEN RDiv(g, NumActions)
        ELSE RDiv(Scale * e[i] * NumActions + g * se, NumActions * se)])

\* (1 - gamma) * (weights / np.sum(weights)) + gamma / num_actions, for
\* weights e of sum se; over: the sum is +inf, every quotient is 0
Mixture(g, e, se, over) ==
    Array([i \in Arms |->
        IF over THEN RDiv(g, NumActions)
        ELSE RDiv((Scale - g) * e[i] * NumActions + g * se, NumActions * se)])

\* probabilities /= np.sum(probabilities)
Renormalise(mix, sp) ==
    IF sp = 0 THEN [i \in Arms |-> NaN]
    ELSE Array([i \in Arms |-> RDiv(mix[i] * Scale, sp)])

MixtureOf(g, e, over) == Mixture(g, e, Sum(e), over)
RenormaliseOf(mix) == Renormalise(mix, Sum(mix))

\* the two statements that recompute self.probabilities from self.weights
Recompute(g, w) ==
    IF \E i \in Arms : w[i] = NaN \/ w[i] = PosInf
    THEN [i \in Arms |-> NaN]
    ELSE IF \A i \in Arms : w[i] = NegInf
    THEN [i \in Arms |-> NaN]
    ELSE RenormaliseOf(
             MixtureOf(g,
                       Relative(w, MaxOf({w[i] : i \in {j \in Arms : w[j] # NegInf}})),
                       SumOverflows(w)))

\* line 26 alone: the mixture, not yet renormalised
Mixed(g, w) ==
    IF \E i \in Arms : w[i] = NaN \/ w[i] = PosInf
    THEN [i \in Arms |-> NaN]
    ELSE IF \A i \in Arms : w[i] = NegInf
    THEN [i \in Arms |-> NaN]
    ELSE MixtureOf(g,
                   Relative(w, MaxOf({w[i] : i \in {j \in Arms : w[j] # NegInf}})),
                   SumOverflows(w))

\* line 27 alone, on the probabilities p line 26 left
Normalised(p) ==
    IF \E i \in Arms : p[i] = NaN THEN [i \in Arms |-> NaN] ELSE RenormaliseOf(p)

\* update also divides all weights by the largest one
update_Rescaled(ps, g, action, reward) ==
    LET a == Index(action)
        x == Exponent(g, reward, ps.probabilities[a])
        w == Array([ps.weights EXCEPT ![a] = MulExp(@, x)])
        m == MaxOf({w[i] : i \in Arms})
        v == Array([i \in Arms |->
                      IF IsFinite(w[i]) /\ IsFinite(m) THEN w[i] - m ELSE w[i]])
    IN [weights |-> v,
        probabilities |-> Recompute(g, v),
        action_counts |-> [ps.action_counts EXCEPT ![a] = @ + 1]]

\* LP_MAB.update, for an action that indexes the arrays
update(ps, g, action, reward) ==
    LET a == Index(action)
        x == Exponent(g, reward, ps.probabilities[a])
        w == Array([ps.weights EXCEPT ![a] = MulExp(@, x)])
    IN [weights |-> w,
        probabilities |-> Recompute(g, w),
        action_counts |-> [ps.action_counts EXCEPT ![a] = @ + 1]]

PolicyState ==
    [weights |-> weights, probabilities |-> probabilities,
     action_counts |-> action_counts]

\* LP_MAB.select_action: np.random.choice(num_actions, p=probabilities)
\* raises ValueError when p holds nan; otherwise it draws an arm of
\* positive probability
CanSelect == \A i \in Arms : probabilities[i] # NaN
\* the arms are numbered from 1
Selectable_OneBased ==
    {i + 1 : i \in {j \in Arms : probabilities[j] # NaN /\ probabilities[j] > 0}}
Selectable == {i \in Arms : probabilities[i] # NaN /\ probabilities[i] > 0}

----------------------------------------------------------------------------
(* The Python socket server (start_socket_server, handle_client_connection,
   main) and the NS-3 side clients that connect to it *)

\* MaxIter stands for the 10 iterations of the client loop; once MaxSends
\* texts are written, over all clients, no further communication thread is
\* started
MaxIter == 2
MaxSends == 2

\* two NS-3 processes connect to the one server
Clients == {1, 2}

\* What a client writes in one send().  ok: the text is "<int>,<int>" (as
\* SendToPythonServer writes it); the statistics line "SNR:5.0,RSSI:-110"
\* of the client loop is not.  On the wire a text also carries dup: when it
\* was written, the server had not yet answered an earlier observation of
\* the same client.  n is the number of comma-separated fields of the text,
\* and seq numbers the texts of a client in the order it wrote them.
StatsLine == [ok |-> FALSE, a |-> 0, r |-> 0, n |-> 2]
\* the text "1": an action id alone, the reward is missing
NoReward == [ok |-> FALSE, a |-> 1, r |-> 0, n |-> 1]
ThreadText == [ok |-> TRUE, a |-> 0, r |-> 1, n |-> 2]
ObsTexts ==
    {[ok |-> TRUE, a |-> 0, r |-> 1, n |-> 2],
     [ok |-> TRUE, a |-> 1, r |-> HugeReward, n |-> 2],
     [ok |-> TRUE, a |-> NumActions, r |-> 1, n |-> 2],
     StatsLine, NoReward}

VARIABLES
    srvPc,        \* "accept", "recv", "select", "send", "crashed"
    srvConn,      \* the client whose connection main() is handling, or 0
    next_action,  \* next_action of handle_client_connection, -1 before
    steps,        \* what the handler has done for the observation in hand
    cliPc,        \* per client: "connect", "send", "recv", "done"
    iter,         \* per client: loop counter i of the client loop
    link,         \* per client: "down", "backlog", "accepted"
    srvClosed,    \* per client: the server's end of the connection is closed
    cliClosed,    \* per client: the client's end is closed
    toSrv,        \* per client: sends not yet read by the server
    toCli,        \* per client: decisions not yet read by the client
    nSent,        \* per client: observations written to the connection
    nRead,        \* per client: observations read by the server
    nAnswered,    \* per client: decisions written by the server
    nGot,         \* per client: decisions read by the client
    assigned,     \* per client: the decision last written to it and not yet
                  \* followed by an observation of it, or -1
    lastObs       \* the observation the handler is processing

InitSession ==
    /\ srvPc = "accept"
    /\ srvConn = 0
    /\ next_action = -1
    /\ steps = <<>>
    /\ cliPc = [c \in Clients |-> "connect"]
    /\ iter = [c \in Clients |-> 0]
    /\ link = [c \in Clients |-> "down"]
    /\ srvClosed = [c \in Clients |-> FALSE]
    /\ cliClosed = [c \in Clients |-> FALSE]
    /\ toSrv = [c \in Clients |-> <<>>]
    /\ toCli = [c \in Clients |-> <<>>]
    /\ nSent = [c \in Clients |-> 0]
    /\ nRead = [c \in Clients |-> 0]
    /\ nAnswered = [c \in Clients |-> 0]
    /\ nGot = [c \in Clients |-> 0]
    /\ assigned = [c \in Clients |-> -1]
    /\ lastObs = [ok |-> FALSE, a |-> 0, r |-> 0, n |-> 0,
                  dup |-> FALSE, seq |-> 0]

policyVars == <<gamma, weights, probabilities, action_counts, raised>>
srvVars == <<srvPc, srvConn, next_action, steps, lastObs>>
cliVars == <<cliPc, iter>>
netVars == <<link, srvClosed, cliClosed, toSrv, toCli>>
countVars == <<nSent, nRead, nAnswered, nGot, assigned>>

\* observations of client c that are written and not yet answered to it
Outstanding(c) == nSent[c] - nGot[c]

----------------------------------------------------------------------------
(* AdrRL (C++): HandleReceivedPacket / RequestTPDRFromPython, and its peer *)

MaxPackets == 2

\* char buffer[1024] of RequestTPDRFromPython
BufferSize == 1024

\* what the peer may write back: the text RequestTPDRFromPython expects
\* ("TP: <tp>, DR: <dr>"), a text with only the first field ("TP: <tp>"),
\* and a text sscanf matches nothing of; len is the number of bytes of the
\* text (the expected text may be followed by blanks, and a text that
\* matches nothing may be of any length up to a full buffer)
Replies ==
    {[kind |-> "full", tp |-> 14, dr |-> 5, len |-> 13],
     [kind |-> "full", tp |-> 2, dr |-> 1, len |-> 12],
     [kind |-> "full", tp |-> 14, dr |-> 5, len |-> BufferSize],
     [kind |-> "tpOnly", tp |-> 14, dr |-> 0, len |-> 6],
     [kind |-> "garbage", tp |-> 0, dr |-> 0, len |-> 1],
     [kind |-> "garbage", tp |-> 0, dr |-> 0, len |-> BufferSize - 1],
     [kind |-> "garbage", tp |-> 0, dr |-> 0, len |-> BufferSize]}

\* recv(client_socket, buffer, sizeof(buffer), 0) with n bytes waiting:
\* at most sizeof(buffer) of them are returned
Received(n) == IF n < BufferSize THEN n ELSE BufferSize

VARIABLES
    adrPc,        \* "idle", "recv" (blocked in recv of RequestTPDRFromPython)
    adrSock,      \* client_socket: "connected", "invalid"
    peerOpen,     \* the peer's end of the connection is open
    toPeer,       \* requests written and not yet read by the peer
    toAdr,        \* replies written and not yet read by AdrRL
    newDataRate,  \* local of HandleReceivedPacket
    newTxPower,   \* local of HandleReceivedPacket
    devDR,        \* data rate the end device runs with
    devTP,        \* transmission power the end device runs with
    prevDR,       \* devDR when the packet in hand arrived
    prevTP,       \* devTP when the packet in hand arrived
    lastOutcome,  \* how the last request ended: "none", "full", "tpOnly",
                  \* "garbage", "failed"
    nPackets,     \* packets handed to HandleReceivedPacket
    terminatorAt  \* index of buffer the last '\0' was written at, -1 before
                  \* the first

adrVars ==
    <<adrPc, adrSock, peerOpen, toPeer, toAdr, newDataRate, newTxPower,
      devDR, devTP, prevDR, prevTP, lastOutcome, nPackets, terminatorAt>>

\* the state after AdrRL::AdrRL() returned, which runs StartSocketServer:
\* either a peer was accepted, or a step failed and the constructor
\* returned without a usable client_socket
InitAdr(sock, dr, tp) ==
    /\ adrPc = "idle"
    /\ adrSock = sock
    /\ peerOpen = (sock = "connected")
    /\ toPeer = 0
    /\ toAdr = <<>>
    /\ newDataRate = 0
    /\ newTxPower = 0
    /\ devDR = dr
    /\ devTP = tp
    /\ prevDR = dr
    /\ prevTP = tp
    /\ lastOutcome = "none"
    /\ nPackets = 0
    /\ terminatorAt = -1

----------------------------------------------------------------------------
(* The contexts that run handle_client_connection, statement by statement:
   main calls the handler for one connection and accepts the next one when
   the call has returned *)

\* the statements of the handler a context can be at: its recv (line 38),
\* the four statements of LP_MAB.update (lines 23, 24-25, 26, 27),
\* select_action (line 43) and send (line 44)
InUpdate == {"l23", "l25", "l26", "l27"}

\* the observations the handler parses here
CtxObs == {[a |-> 0, r |-> 1], [a |-> 1, r |-> -1]}

VARIABLES
    hPc,     \* per connection: "none" (not accepted), "recv", "l23", "l25",
             \* "l26", "l27", "select", "send", "closed"
    hObs     \* per connection: action, reward of the handler

ctxVars == <<hPc, hObs>>

InitContexts ==
    /\ hPc = [c \in Clients |-> "none"]
    /\ hObs = [c \in Clients |-> [a |-> 0, r |-> 0]]

----------------------------------------------------------------------------
(* The value-based trainer (epsilon-greedy over a Q-network, UDP) and the
   NS-3 UDP server that answers it *)

\* MaxEpisodes stands for the 1000 episodes of the training loop
MaxEpisodes == 2

action_space == 24
ActionIds == 0 .. (action_space - 1)

VARIABLES
    strategy,       \* the policy program that runs: "bandit" (LP_MAB behind
                    \* the socket server) or "epsilon-greedy" (the trainer)
    tPc,            \* trainer: "select", "recvfrom", "done"
    episode,        \* episode of the training loop
    trainerAction,  \* action of the training loop, -1 before the first
    q_values,       \* q_network.predict(state)[0], per action
    toNs3,          \* datagrams the trainer sent, not yet read by NS-3
    toTrainer       \* datagrams NS-3 sent, not yet read by the trainer

dqnVars == <<strategy, tPc, episode, trainerAction, q_values, toNs3, toTrainer>>

\* q_network is built with random weights: its first output favours no
\* action, the first action or the last one
InitialQ ==
    {[a \in ActionIds |-> 0],
     [a \in ActionIds |-> IF a = 0 THEN 1 ELSE 0],
     [a \in ActionIds |-> IF a = action_space - 1 THEN 1 ELSE 0]}

InitDqn(s, q) ==
    /\ strategy = s
    /\ tPc = "select"
    /\ episode = 0
    /\ trainerAction = -1
    /\ q_values = q
    /\ toNs3 = <<>>
    /\ toTrainer = <<>>

----------------------------------------------------------------------------
(* The action catalog: ids for the (SF, TP) pairs *)

SFOptions == <<7, 8, 9, 10, 11, 12>>
TPOptions == <<5, 10, 15, 20>>

VARIABLES
    encReq,   \* the pair Encode was last called with
    encRes,   \* what that call returned
    decReq,   \* the id Decode was last called with
    decRes    \* what that call returned

catVars == <<encReq, encRes, decReq, decRes>>

InitCatalog ==
    /\ encReq = [sf |-> 0, tp |-> 0]
    /\ encRes = [err |-> "never", id |-> -1]
    /\ decReq = -1
    /\ decRes = [err |-> "never", sf |-> 0, tp |-> 0]

----------------------------------------------------------------------------
(* Start-up of AdrRL (C++) and of handle_request (Python), on one host *)

VARIABLES
    pyPc,       \* handle_request: "socket", "bind", "listen", "accept"
                \* (blocked in accept), "failed" (ended by an exception)
    port8080    \* the process whose socket is bound to port 8080, or "free"

startVars == <<pyPc, port8080>>

\* handle_request is not started
InitStartup ==
    /\ pyPc = "off"
    /\ port8080 = "free"

----------------------------------------------------------------------------
(* The NS-3 client main with its end device, and the RL agent it talks to *)

VARIABLES
    upPc,           \* main: "connect", "send", "recv", "close", "run", "done"
    upI,            \* loop counter i
    agentOpen,      \* the RL agent's end of the connection is open
    toAgent,        \* statistics texts written and not yet read by the agent
    fromAgent,      \* responses written by the agent and not yet read
    response,       \* what ReceiveFromRLAgent last returned: an action id,
                    \* -1 for the empty string, -2 before the first call
    transmissions,  \* uplink packets the end device has sent
    roundTrips,     \* responses main has received from the agent
    scheduled,      \* SendPacket events in the simulator's event list
    edAction,       \* the action the end device transmits with
    txStale         \* the last transmission did not use the action received
                    \* before it

upVars ==
    <<upPc, upI, agentOpen, toAgent, fromAgent, response, transmissions,
      roundTrips, scheduled, edAction, txStale>>

\* main is not started
InitUplink ==
    /\ upPc = "off"
    /\ upI = 0
    /\ agentOpen = FALSE
    /\ toAgent = 0
    /\ fromAgent = <<>>
    /\ response = -2
    /\ transmissions = 0
    /\ roundTrips = 0
    /\ scheduled = 0
    /\ edAction = 0
    /\ txStale = FALSE

----------------------------------------------------------------------------

----------------------------------------------------------------------------
(* TagBuffer (C++): a cursor m_current and a limit m_end into a byte
   region owned by the caller *)

\* bytes of the region the TagBuffers of the model are constructed over
Capacity == 9

\* operations made on the TagBuffer in one run
MaxOps == 3

VARIABLES
    region,      \* the bytes of the region, by offset from its first byte
    m_current,   \* offset of TagBuffer::m_current in the region
    m_end,       \* offset of TagBuffer::m_end in the region
    tagSt,       \* "ok", or "aborted" once an NS_ASSERT failed
    source,      \* the caller's TagBuffer handed to CopyFrom: its bytes
                 \* (by offset), m_current and m_end
    wrote,       \* the last WriteU8/16/32/64 that returned: width w, offset
                 \* at it started at, value v (16-bit limbs, lowest first);
                 \* w = 0 when the region was written otherwise since
    readBack,    \* the last ReadU8/16/32/64 that returned, likewise; w = 0
                 \* when the region was written since
    lastOp,      \* the last operation: name, argument, and m_current, m_end
                 \* and region as they were when it was called, and the
                 \* number of bytes a memcpy of it copied
    nOps         \* operations made

tagVars ==
    <<region, m_current, m_end, tagSt, source, wrote, readBack, lastOp, nOps>>

NoValue == [w |-> 0, at |-> 0, v |-> <<>>]

\* the caller's TagBuffers CopyFrom is handed: three bytes left, none left,
\* more bytes left than any destination of the model has, and one whose
\* end is before its cursor
Sources ==
    {[bytes |-> <<17, 34, 51, 68, 85, 102, 119, 136>>, m_current |-> 1,
      m_end |-> 4],
     [bytes |-> <<17, 34, 51, 68, 85, 102, 119, 136>>, m_current |-> 4,
      m_end |-> 4],
     [bytes |-> <<1, 2, 3, 4, 5, 6, 7, 8, 9, 10, 11, 12>>, m_current |-> 0,
      m_end |-> 12],
     [bytes |-> <<17, 34, 51, 68, 85, 102, 119, 136>>, m_current |-> 3,
      m_end |-> 2]}

\* TagBuffer::TagBuffer(start, end) over a zeroed region
InitTagBuffer(start, end, o) ==
    /\ region = [i \in 0 .. (Capacity - 1) |-> 0]
    /\ m_current = start
    /\ m_end = end
    /\ tagSt = "ok"
    /\ source = o
    /\ wrote = NoValue
    /\ readBack = NoValue
    /\ lastOp = [op |-> "TagBuffer", arg |-> <<start, end>>, at |-> start,
                 end |-> end, region |-> region, copied |-> {}]
    /\ nOps = 0

extVars == <<dqnVars, catVars, startVars, upVars, tagVars>>

\* the programs outside the socket server, the policy and AdrRL, not started
InitExt ==
    /\ InitDqn("bandit", [a \in ActionIds |-> 0])
    /\ InitCatalog
    /\ InitStartup
    /\ InitUplink
    /\ InitTagBuffer(0, 0, [bytes |-> <<>>, m_current |-> 0, m_end |-> 0])

coreVars ==
    <<policyVars, srvVars, cliVars, netVars, countVars, adrVars, ctxVars>>

vars ==
    <<gamma, weights, probabilities, action_counts, raised,
      srvPc, srvConn, next_action, steps, lastObs,
      cliPc, iter, link, srvClosed, cliClosed, toSrv, toCli,
      nSent, nRead, nAnswered, nGot, assigned,
      adrPc, adrSock, peerOpen, toPeer, toAdr, newDataRate, newTxPower,
      devDR, devTP, prevDR, prevTP, lastOutcome, nPackets, terminatorAt,
      hPc, hObs,
      strategy, tPc, episode, trainerAction, q_values, toNs3, toTrainer,
      encReq, encRes, decReq, decRes,
      pyPc, port8080,
      upPc, upI, agentOpen, toAgent, fromAgent, response, transmissions,
      roundTrips, scheduled, edAction, txStale,
      region, m_current, m_end, tagSt, source, wrote, readBack, lastOp,
      nOps>>

----------------------------------------------------------------------------
(* Calls on the policy alone *)

\* the indices update is called with: every arm, -1 (which numpy wraps to
\* the last arm) and the first index out of range on either side
CallActions == {-NumActions - 1, -1} \cup (0 .. NumActions)
CallRewards == {-HugeReward, -1, 1, HugeReward}

\* what the call lp_mab.update(action, reward) does on the policy state ps:
\* the exception it raises, if any, and the policy state it leaves.  An
\* index outside the arrays raises at line 23, before anything is written.
Called(ps, g, action, reward) ==
    IF IndexOk(action)
    THEN [exc |-> "none", ps |-> update(ps, g, action, reward)]
    ELSE [exc |-> "IndexError", ps |-> ps]

\* lp_mab.update(action, reward)
Update(action, reward) ==
    /\ Sum(action_counts) < MaxUpdates
    /\ LET out == Called(PolicyState, gamma, action, reward)
       IN /\ weights' = out.ps.weights
          /\ probabilities' = out.ps.probabilities
          /\ action_counts' = out.ps.action_counts
          /\ raised' = out.exc
    /\ UNCHANGED <<gamma, next_action>>
    /\ UNCHANGED <<srvPc, srvConn, steps, lastObs>>
    /\ UNCHANGED <<cliVars, netVars, countVars, adrVars, ctxVars, extVars>>

\* lp_mab.select_action()
SelectAction ==
    /\ IF CanSelect
       THEN /\ next_action' \in Selectable
            /\ raised' = "none"
       ELSE /\ raised' = "ValueError"
            /\ UNCHANGED next_action
    /\ UNCHANGED <<gamma, weights, probabilities, action_counts>>
    /\ UNCHANGED <<srvPc, srvConn, steps, lastObs>>
    /\ UNCHANGED <<cliVars, netVars, countVars, adrVars, ctxVars, extVars>>

InitP ==
    /\ InitExt
    /\ \E g \in Gammas : InitPolicy(g)
    /\ InitContexts
    /\ InitSession
    /\ InitAdr("connected", 5, 14)

NextP ==
    \/ \E action \in CallActions, reward \in CallRewards : Update(action, reward)
    \/ SelectAction

SpecPolicy == InitP /\ [][NextP]_vars

----------------------------------------------------------------------------
(* The server process: main() and handle_client_connection *)

\* an uncaught exception ends the Python process; the kernel closes every
\* socket it holds
Crash(exc) ==
    /\ srvPc' = "crashed"
    /\ raised' = exc
    /\ srvClosed' = [c \in Clients |-> TRUE]

\* main: client_socket, addr = server_socket.accept()
ServerAccept(c) ==
    /\ srvPc = "accept"
    /\ link[c] = "backlog"
    /\ srvPc' = "recv"
    /\ srvConn' = c
    /\ link' = [link EXCEPT ![c] = "accepted"]
    /\ UNCHANGED <<policyVars, next_action, steps, lastObs>>
    /\ UNCHANGED <<cliVars, srvClosed, cliClosed, toSrv, toCli, countVars, adrVars, ctxVars, extVars>>

\* action, reward = map(int, data.split(',')); lp_mab.update(action, reward)
\* on the data of one recv: the first k sends of client c run together, obs
\* the first of them.  Gives the exception raised, if any, and the policy
\* state left.
Observe(c, k, obs) ==
    IF k > 1 \/ ~obs.ok THEN [exc |-> "ValueError", ps |-> PolicyState]
    ELSE IF ~IndexOk(obs.a) THEN [exc |-> "IndexError", ps |-> PolicyState]
    ELSE [exc |-> "none", ps |-> update(PolicyState, gamma, obs.a, obs.r)]

\* the handler takes the text written last, not the one written first
ServerRecv_Newest(k) ==
    /\ srvPc = "recv"
    /\ k >= 1 /\ k <= Len(toSrv[srvConn])
    /\ LET c == srvConn
           obs == toSrv[c][Len(toSrv[c])]
           out == Observe(c, k, obs)
       IN /\ toSrv' = [toSrv EXCEPT ![c] = SubSeq(@, 1, Len(@) - k)]
          /\ nRead' = [nRead EXCEPT ![c] = @ + k]
          /\ assigned' = [assigned EXCEPT ![c] = -1]
          /\ lastObs' = obs
          /\ weights' = out.ps.weights
          /\ probabilities' = out.ps.probabilities
          /\ action_counts' = out.ps.action_counts
          /\ IF out.exc = "none"
             THEN /\ steps' = <<"update">>
                  /\ srvPc' = "select"
                  /\ raised' = "none"
                  /\ UNCHANGED srvClosed
             ELSE /\ steps' = <<>>
                  /\ Crash(out.exc)
    /\ UNCHANGED <<gamma, srvConn, next_action>>
    /\ UNCHANGED <<cliVars, link, cliClosed, toCli, nSent, nAnswered, nGot, adrVars, ctxVars, extVars>>

\* data = client_socket.recv(1024).decode(), then the parse and the update.
\* recv returns what the stream holds: the first k sends, run together
\* when k > 1.
ServerRecv(k) ==
    /\ srvPc = "recv"
    /\ k >= 1 /\ k <= Len(toSrv[srvConn])
    /\ LET c == srvConn
           obs == Head(toSrv[c])
           out == Observe(c, k, obs)
       IN /\ toSrv' = [toSrv EXCEPT ![c] = SubSeq(@, k + 1, Len(@))]
          /\ nRead' = [nRead EXCEPT ![c] = @ + k]
          /\ assigned' = [assigned EXCEPT ![c] = -1]
          /\ lastObs' = obs
          /\ weights' = out.ps.weights
          /\ probabilities' = out.ps.probabilities
          /\ action_counts' = out.ps.action_counts
          /\ IF out.exc = "none"
             THEN /\ steps' = <<"update">>
                  /\ srvPc' = "select"
                  /\ raised' = "none"
                  /\ UNCHANGED srvClosed
             ELSE /\ steps' = <<>>
                  /\ Crash(out.exc)
    /\ UNCHANGED <<gamma, srvConn, next_action>>
    /\ UNCHANGED <<cliVars, link, cliClosed, toCli, nSent, nAnswered, nGot, adrVars, ctxVars, extVars>>

\* if not data: break; client_socket.close(); back to accept in main
ServerRecvEof ==
    /\ srvPc = "recv"
    /\ toSrv[srvConn] = <<>>
    /\ cliClosed[srvConn]
    /\ srvClosed' = [srvClosed EXCEPT ![srvConn] = TRUE]
    /\ srvPc' = "accept"
    /\ srvConn' = 0
    /\ UNCHANGED <<policyVars, next_action, steps, lastObs>>
    /\ UNCHANGED <<cliVars, link, cliClosed, toSrv, toCli, countVars, adrVars, ctxVars, extVars>>

\* the peer closed without having read every decision sent to it: its
\* kernel answers with a reset
Reset(c) == cliClosed[c] /\ nAnswered[c] > nGot[c]

\* client_socket.recv(1024) on a connection that was reset raises
\* ConnectionResetError, which nothing catches
ServerRecvReset ==
    /\ srvPc = "recv"
    /\ toSrv[srvConn] = <<>>
    /\ Reset(srvConn)
    /\ Crash("ConnectionResetError")
    /\ UNCHANGED <<gamma, weights, probabilities, action_counts>>
    /\ UNCHANGED <<srvConn, next_action, steps, lastObs>>
    /\ UNCHANGED <<cliVars, link, cliClosed, toSrv, toCli, countVars, adrVars, ctxVars, extVars>>

\* next_action = lp_mab.select_action()
ServerSelect ==
    /\ srvPc = "select"
    /\ IF CanSelect
       THEN /\ next_action' \in Selectable
            /\ steps' = Append(steps, "select")
            /\ srvPc' = "send"
            /\ UNCHANGED <<raised, srvClosed>>
       ELSE /\ Crash("ValueError")
            /\ UNCHANGED <<next_action, steps>>
    /\ UNCHANGED <<gamma, weights, probabilities, action_counts, srvConn, lastObs>>
    /\ UNCHANGED <<cliVars, link, cliClosed, toSrv, toCli, countVars, adrVars, ctxVars, extVars>>

\* the handler answers with the action of the observation instead of the
\* action select_action returned
ServerSend_Echo ==
    /\ srvPc = "send"
    /\ toCli' = [toCli EXCEPT ![srvConn] =
                    IF cliClosed[srvConn] THEN @ ELSE Append(@, Index(lastObs.a))]
    /\ nAnswered' = [nAnswered EXCEPT ![srvConn] = @ + 1]
    /\ assigned' = [assigned EXCEPT ![srvConn] = Index(lastObs.a)]
    /\ steps' = Append(steps, "send")
    /\ srvPc' = "recv"
    /\ UNCHANGED <<policyVars, srvConn, next_action, lastObs>>
    /\ UNCHANGED <<cliVars, link, srvClosed, cliClosed, toSrv, nSent, nRead, nGot, adrVars, ctxVars, extVars>>

\* client_socket.send(str(next_action).encode())
ServerSend ==
    /\ srvPc = "send"
    /\ toCli' = [toCli EXCEPT ![srvConn] =
                    IF cliClosed[srvConn] THEN @ ELSE Append(@, next_action)]
    /\ nAnswered' = [nAnswered EXCEPT ![srvConn] = @ + 1]
    /\ assigned' = [assigned EXCEPT ![srvConn] = next_action]
    /\ steps' = Append(steps, "send")
    /\ srvPc' = "recv"
    /\ UNCHANGED <<policyVars, srvConn, next_action, lastObs>>
    /\ UNCHANGED <<cliVars, link, srvClosed, cliClosed, toSrv, nSent, nRead, nGot, adrVars, ctxVars, extVars>>

----------------------------------------------------------------------------
(* The NS-3 side: the client loop of main (connect; 10 times send the
   statistics, wait for the agent's answer; close) *)

\* connect(rlSocket, ...): the result is not looked at
ClientConnect(c) ==
    /\ cliPc[c] = "connect"
    /\ link' = [link EXCEPT ![c] = IF srvPc = "crashed" THEN "down" ELSE "backlog"]
    /\ cliPc' = [cliPc EXCEPT ![c] = "send"]
    /\ UNCHANGED <<policyVars, srvVars, iter, srvClosed, cliClosed, toSrv, toCli,
                   countVars, adrVars, ctxVars, extVars>>

\* the text t goes out on client c's socket
Write(c, t) ==
    /\ link[c] # "down"
    /\ nSent' = [nSent EXCEPT ![c] = @ + 1]
    /\ toSrv' = [toSrv EXCEPT ![c] =
                    IF srvClosed[c] THEN @
                    ELSE Append(@, [ok |-> t.ok, a |-> t.a, r |-> t.r, n |-> t.n,
                                    dup |-> nSent[c] > nAnswered[c],
                                    seq |-> nSent[c] + 1])]

\* SendPacket(endDevice); send(rlSocket, stats...)
ClientSend(c, t) ==
    /\ cliPc[c] = "send"
    /\ iter[c] < MaxIter
    /\ IF link[c] # "down"
       THEN Write(c, t)
       ELSE UNCHANGED <<nSent, toSrv>>
    /\ cliPc' = [cliPc EXCEPT ![c] = "recv"]
    /\ UNCHANGED <<policyVars, srvVars, iter, link, srvClosed, cliClosed, toCli,
                   nRead, nAnswered, nGot, assigned, adrVars, ctxVars, extVars>>

\* ReceiveFromRLAgent: recv returned len > 0, the first k answers
ClientRecv(c, k) ==
    /\ cliPc[c] = "recv"
    /\ k >= 1 /\ k <= Len(toCli[c])
    /\ toCli' = [toCli EXCEPT ![c] = SubSeq(@, k + 1, Len(@))]
    /\ nGot' = [nGot EXCEPT ![c] = @ + k]
    /\ iter' = [iter EXCEPT ![c] = @ + 1]
    /\ cliPc' = [cliPc EXCEPT ![c] = "send"]
    /\ UNCHANGED <<policyVars, srvVars, link, srvClosed, cliClosed, toSrv,
                   nSent, nRead, nAnswered, assigned, adrVars, ctxVars, extVars>>

\* ReceiveFromRLAgent: recv returned len <= 0 (not connected, or the peer
\* closed and nothing is left to read); "" is returned and the loop goes on
ClientRecvFail(c) ==
    /\ cliPc[c] = "recv"
    /\ toCli[c] = <<>>
    /\ link[c] = "down" \/ srvClosed[c]
    /\ iter' = [iter EXCEPT ![c] = @ + 1]
    /\ cliPc' = [cliPc EXCEPT ![c] = "send"]
    /\ UNCHANGED <<policyVars, srvVars, link, srvClosed, cliClosed, toSrv, toCli,
                   countVars, adrVars, ctxVars, extVars>>

\* the per-packet communication thread (std::thread comm_thread, detached):
\* it writes the observation of a further packet on the same socket while
\* the loop is waiting
ClientThreadSend(c) ==
    /\ cliPc[c] = "recv"
    /\ ~cliClosed[c]
    /\ Sum(nSent) < MaxSends
    /\ Write(c, ThreadText)
    /\ UNCHANGED <<policyVars, srvVars, cliVars, link, srvClosed, cliClosed, toCli,
                   nRead, nAnswered, nGot, assigned, adrVars, ctxVars, extVars>>

\* after the loop: close(rlSocket)
ClientClose(c) ==
    /\ cliPc[c] = "send"
    /\ iter[c] >= MaxIter
    /\ cliClosed' = [cliClosed EXCEPT ![c] = TRUE]
    /\ cliPc' = [cliPc EXCEPT ![c] = "done"]
    /\ UNCHANGED <<policyVars, srvVars, iter, link, srvClosed, toSrv, toCli,
                   countVars, adrVars, ctxVars, extVars>>

\* main(): lp_mab = LP_MAB(num_actions) with the default gamma = 0.1, then
\* start_socket_server()
InitS ==
    /\ InitExt
    /\ InitPolicy(Scale \div 10)
    /\ InitContexts
    /\ InitSession
    /\ InitAdr("connected", 5, 14)

NextS ==
    \/ \E c \in Clients : ServerAccept(c)
    \/ \E k \in 1 .. MaxSends : ServerRecv(k)
    \/ ServerRecvEof
    \/ ServerRecvReset
    \/ ServerSelect
    \/ ServerSend
    \/ \E c \in Clients : ClientConnect(c)
    \/ \E c \in Clients, t \in ObsTexts : ClientSend(c, t)
    \/ \E c \in Clients, k \in 1 .. MaxSends : ClientRecv(c, k)
    \/ \E c \in Clients : ClientRecvFail(c)
    \/ \E c \in Clients : ClientThreadSend(c)
    \/ \E c \in Clients : ClientClose(c)

SpecSession == InitS /\ [][NextS]_vars

----------------------------------------------------------------------------
(* AdrRL: one packet is HandleReceivedPacket -> RequestTPDRFromPython ->
   AdrImplementation *)

InitialDR == {3, 5}
InitialTP == {10, 14}

\* AdrImplementation(&newDataRate, &newTxPower, status): "apply the new
\* values": the device runs with the data rate and power it is handed
AdrImplementation(dr, tp) == [dr |-> dr, tp |-> tp]

\* what sscanf(response, "TP: %hhu, DR: %hhu", newTxPower, newDataRate)
\* leaves in the two locals that held tp0, dr0
Scanned(rep, dr0, tp0) ==
    IF rep.kind = "full" THEN [dr |-> rep.dr % 256, tp |-> rep.tp % 256]
    ELSE IF rep.kind = "tpOnly" THEN [dr |-> dr0, tp |-> rep.tp % 256]
    ELSE [dr |-> dr0, tp |-> tp0]

\* HandleReceivedPacket up to the recv of RequestTPDRFromPython: the locals
\* are zeroed and the request is written
HandleReceivedPacket ==
    /\ adrPc = "idle"
    /\ nPackets < MaxPackets
    /\ nPackets' = nPackets + 1
    /\ prevDR' = devDR
    /\ prevTP' = devTP
    /\ newTxPower' = 0
    /\ newDataRate' = 0
    /\ toPeer' = IF adrSock = "connected" /\ peerOpen THEN toPeer + 1 ELSE toPeer
    /\ adrPc' = "recv"
    /\ UNCHANGED <<adrSock, peerOpen, toAdr, devDR, devTP, lastOutcome,
                   terminatorAt>>
    /\ UNCHANGED <<policyVars, srvVars, cliVars, netVars, countVars, ctxVars, extVars>>

\* recv returned bytes_received > 0: buffer[bytes_received] = '\0' is
\* written, the reply is scanned, the function returns and
\* HandleReceivedPacket applies the two locals.  A write at index
\* sizeof(buffer) is outside the array: the run either goes on as if the
\* byte had landed in unused storage, or the process is stopped
\* (adrPc "crashed") before anything is applied
AdrReceive ==
    /\ adrPc = "recv"
    /\ adrSock = "connected"
    /\ toAdr # <<>>
    /\ LET bytes_received == Received(Head(toAdr).len)
           got == Scanned(Head(toAdr), newDataRate, newTxPower)
           app == AdrImplementation(got.dr, got.tp)
       IN /\ terminatorAt' = bytes_received
          /\ \/ /\ newDataRate' = got.dr
                /\ newTxPower' = got.tp
                /\ devDR' = app.dr
                /\ devTP' = app.tp
                /\ lastOutcome' = Head(toAdr).kind
                /\ adrPc' = "idle"
             \/ /\ bytes_received >= BufferSize
                /\ adrPc' = "crashed"
                /\ UNCHANGED <<newDataRate, newTxPower, devDR, devTP,
                               lastOutcome>>
    /\ toAdr' = Tail(toAdr)
    /\ UNCHANGED <<adrSock, peerOpen, toPeer, prevDR, prevTP, nPackets>>
    /\ UNCHANGED <<policyVars, srvVars, cliVars, netVars, countVars, ctxVars, extVars>>

\* recv returned bytes_received <= 0 (no usable socket, or the peer closed):
\* the function returns early and HandleReceivedPacket applies the locals
\* as they are
AdrReceiveFail ==
    /\ adrPc = "recv"
    /\ adrSock = "invalid" \/ (~peerOpen /\ toAdr = <<>>)
    /\ LET app == AdrImplementation(newDataRate, newTxPower)
       IN /\ devDR' = app.dr
          /\ devTP' = app.tp
    /\ lastOutcome' = "failed"
    /\ adrPc' = "idle"
    /\ UNCHANGED <<adrSock, peerOpen, toPeer, toAdr, newDataRate, newTxPower,
                   prevDR, prevTP, nPackets, terminatorAt>>
    /\ UNCHANGED <<policyVars, srvVars, cliVars, netVars, countVars, ctxVars, extVars>>

\* the peer reads one request and writes one reply
PeerReply(rep) ==
    /\ peerOpen
    /\ toPeer > 0
    /\ toPeer' = toPeer - 1
    /\ toAdr' = Append(toAdr, rep)
    /\ UNCHANGED <<adrPc, adrSock, peerOpen, newDataRate, newTxPower,
                   devDR, devTP, prevDR, prevTP, lastOutcome, nPackets,
                   terminatorAt>>
    /\ UNCHANGED <<policyVars, srvVars, cliVars, netVars, countVars, ctxVars, extVars>>

\* the peer process ends; its socket is closed
PeerClose ==
    /\ peerOpen
    /\ peerOpen' = FALSE
    /\ UNCHANGED <<adrPc, adrSock, toPeer, toAdr, newDataRate, newTxPower,
                   devDR, devTP, prevDR, prevTP, lastOutcome, nPackets,
                   terminatorAt>>
    /\ UNCHANGED <<policyVars, srvVars, cliVars, netVars, countVars, ctxVars, extVars>>

InitA ==
    /\ InitExt
    /\ InitPolicy(Scale \div 10)
    /\ InitContexts
    /\ InitSession
    /\ \E sock \in {"connected", "invalid"}, dr \in InitialDR, tp \in InitialTP :
          InitAdr(sock, dr, tp)

NextA ==
    \/ HandleReceivedPacket
    \/ AdrReceive
    \/ AdrReceiveFail
    \/ \E rep \in Replies : PeerReply(rep)
    \/ PeerClose

SpecAdr == InitA /\ [][NextA]_vars

----------------------------------------------------------------------------
(* main and the handler contexts, statement by statement *)

\* main starts a handler for the connection in a thread of its own and
\* goes back to accept at once
MainAccept_Threaded(c) ==
    /\ hPc[c] = "none"
    /\ hPc' = [hPc EXCEPT ![c] = "recv"]
    /\ UNCHANGED <<policyVars, srvVars, cliVars, netVars, countVars, adrVars, hObs, extVars>>

\* main: accept, then handle_client_connection(client_socket, lp_mab) as
\* a plain call: main is at accept only when no handler is running
MainAccept(c) ==
    /\ \A d \in Clients : hPc[d] \in {"none", "closed"}
    /\ hPc[c] = "none"
    /\ hPc' = [hPc EXCEPT ![c] = "recv"]
    /\ UNCHANGED <<policyVars, srvVars, cliVars, netVars, countVars, adrVars, hObs, extVars>>

\* data = recv(...); action, reward = map(int, data.split(','))
HandlerRecv(c, obs) ==
    /\ hPc[c] = "recv"
    /\ Sum(action_counts) < MaxUpdates
    /\ hObs' = [hObs EXCEPT ![c] = obs]
    /\ hPc' = [hPc EXCEPT ![c] = "l23"]
    /\ UNCHANGED <<policyVars, srvVars, cliVars, netVars, countVars, adrVars, extVars>>

\* if not data: break; client_socket.close(); the call returns to main
HandlerEof(c) ==
    /\ hPc[c] = "recv"
    /\ hPc' = [hPc EXCEPT ![c] = "closed"]
    /\ UNCHANGED <<policyVars, srvVars, cliVars, netVars, countVars, adrVars, hObs, extVars>>

\* self.action_counts[action] += 1
Stmt23(c) ==
    /\ hPc[c] = "l23"
    /\ action_counts' = [action_counts EXCEPT ![hObs[c].a] = @ + 1]
    /\ hPc' = [hPc EXCEPT ![c] = "l25"]
    /\ UNCHANGED <<gamma, weights, probabilities, raised>>
    /\ UNCHANGED <<srvVars, cliVars, netVars, countVars, adrVars, hObs, extVars>>

\* estimated_reward = reward / self.probabilities[action];
\* self.weights[action] *= np.exp(self.gamma * estimated_reward / num_actions)
Stmt25(c) ==
    /\ hPc[c] = "l25"
    /\ weights' = [weights EXCEPT ![hObs[c].a] =
                      MulExp(@, Exponent(gamma, hObs[c].r, probabilities[hObs[c].a]))]
    /\ hPc' = [hPc EXCEPT ![c] = "l26"]
    /\ UNCHANGED <<gamma, probabilities, action_counts, raised>>
    /\ UNCHANGED <<srvVars, cliVars, netVars, countVars, adrVars, hObs, extVars>>

\* self.probabilities = (1 - gamma) * (weights / sum) + gamma / num_actions
Stmt26(c) ==
    /\ hPc[c] = "l26"
    /\ probabilities' = Mixed(gamma, weights)
    /\ hPc' = [hPc EXCEPT ![c] = "l27"]
    /\ UNCHANGED <<gamma, weights, action_counts, raised>>
    /\ UNCHANGED <<srvVars, cliVars, netVars, countVars, adrVars, hObs, extVars>>

\* self.probabilities /= np.sum(self.probabilities)
Stmt27(c) ==
    /\ hPc[c] = "l27"
    /\ probabilities' = Normalised(probabilities)
    /\ hPc' = [hPc EXCEPT ![c] = "select"]
    /\ UNCHANGED <<gamma, weights, action_counts, raised>>
    /\ UNCHANGED <<srvVars, cliVars, netVars, countVars, adrVars, hObs, extVars>>

\* next_action = lp_mab.select_action(); ValueError ends the process
HandlerSelect(c) ==
    /\ hPc[c] = "select"
    /\ IF CanSelect
       THEN /\ next_action' \in Selectable
            /\ hPc' = [hPc EXCEPT ![c] = "send"]
            /\ UNCHANGED raised
       ELSE /\ raised' = "ValueError"
            /\ hPc' = [d \in Clients |-> "closed"]
            /\ UNCHANGED next_action
    /\ UNCHANGED <<gamma, weights, probabilities, action_counts>>
    /\ UNCHANGED <<srvPc, srvConn, steps, lastObs>>
    /\ UNCHANGED <<cliVars, netVars, countVars, adrVars, hObs, extVars>>

\* client_socket.send(str(next_action).encode())
HandlerSend(c) ==
    /\ hPc[c] = "send"
    /\ hPc' = [hPc EXCEPT ![c] = "recv"]
    /\ UNCHANGED <<policyVars, srvVars, cliVars, netVars, countVars, adrVars, hObs, extVars>>

InitC ==
    /\ InitExt
    /\ InitPolicy(Scale \div 10)
    /\ InitSession
    /\ InitAdr("connected", 5, 14)
    /\ InitContexts

NextC ==
    \/ \E c \in Clients : MainAccept(c)
    \/ \E c \in Clients, obs \in CtxObs : HandlerRecv(c, obs)
    \/ \E c \in Clients : HandlerEof(c)
    \/ \E c \in Clients : Stmt23(c)
    \/ \E c \in Clients : Stmt25(c)
    \/ \E c \in Clients : Stmt26(c)
    \/ \E c \in Clients : Stmt27(c)
    \/ \E c \in Clients : HandlerSelect(c)
    \/ \E c \in Clients : HandlerSend(c)

SpecContexts == InitC /\ [][NextC]_vars

----------------------------------------------------------------------------
(* The two strategies: LP_MAB called directly, or the training loop of the
   value-based trainer with the NS-3 UDP server LoRaWANServer *)

\* np.argmax: the first index of the largest entry
ArgMax(q) ==
    CHOOSE a \in DOMAIN q :
        /\ \A b \in DOMAIN q : q[b] <= q[a]
        /\ \A b \in DOMAIN q : b < a => q[b] < q[a]

\* the trainer's frame: everything but its own variables
notDqn == <<coreVars, catVars, startVars, upVars, tagVars>>

\* the action is sent to NS-3 and the loop blocks in recvfrom
SendAction(a) ==
    /\ trainerAction' = a
    /\ toNs3' = Append(toNs3, [action |-> a, ep |-> episode])
    /\ tPc' = "recvfrom"
    /\ UNCHANGED <<strategy, episode, q_values, toTrainer>>
    /\ UNCHANGED notDqn

\* np.random.rand() < epsilon: action = np.random.choice(action_space)
Explore(a) ==
    /\ strategy = "epsilon-greedy"
    /\ tPc = "select"
    /\ SendAction(a)

\* otherwise: action = np.argmax(q_network.predict(...))
Exploit ==
    /\ strategy = "epsilon-greedy"
    /\ tPc = "select"
    /\ SendAction(ArgMax(q_values))

\* LoRaWANServer::HandleRead: one datagram is read and answered with
\* "<pdr>,<energy>"; SimulateLoRaWAN returns 0.9 and
\* CalculateEnergyConsumption 5.0 whatever the action is
HandleRead ==
    /\ toNs3 # <<>>
    /\ toNs3' = Tail(toNs3)
    /\ toTrainer' = Append(toTrainer,
                           [pdr |-> (9 * Scale) \div 10, energy |-> 5 * Scale,
                            ep |-> Head(toNs3).ep])
    /\ UNCHANGED <<strategy, tPc, episode, trainerAction, q_values>>
    /\ UNCHANGED notDqn

\* recvfrom returns, the reward is parsed and the Q-network takes one
\* gradient step on (target - q_values[action])^2.  target is reward +
\* 0.99 * max(q_values), above q_values[action] in both components, so the
\* step raises q_values[action] (here by one level).
TrainerUpdate ==
    /\ strategy = "epsilon-greedy"
    /\ tPc = "recvfrom"
    /\ toTrainer # <<>>
    /\ toTrainer' = Tail(toTrainer)
    /\ q_values' = [q_values EXCEPT ![trainerAction] = @ + 1]
    /\ episode' = episode + 1
    /\ tPc' = IF episode + 1 < MaxEpisodes THEN "select" ELSE "done"
    /\ UNCHANGED <<strategy, trainerAction, toNs3>>
    /\ UNCHANGED notDqn

\* sock is a SOCK_DGRAM socket: a datagram on its way, the action to NS-3
\* or the reward to the trainer, may be dropped; sock.recvfrom(1024) is
\* called on a socket without a timeout and goes on waiting
LoseDatagram ==
    /\ strategy = "epsilon-greedy"
    /\ \/ /\ toNs3 # <<>>
          /\ toNs3' = Tail(toNs3)
          /\ UNCHANGED toTrainer
       \/ /\ toTrainer # <<>>
          /\ toTrainer' = Tail(toTrainer)
          /\ UNCHANGED toNs3
    /\ UNCHANGED <<strategy, tPc, episode, trainerAction, q_values>>
    /\ UNCHANGED notDqn

InitT ==
    /\ InitTagBuffer(0, 0, [bytes |-> <<>>, m_current |-> 0, m_end |-> 0])
    /\ InitContexts
    /\ InitSession
    /\ InitAdr("connected", 5, 14)
    /\ InitCatalog
    /\ InitStartup
    /\ InitUplink
    /\ \/ /\ InitDqn("bandit", [a \in ActionIds |-> 0])
          /\ \E g \in Gammas : InitPolicy(g)
       \/ /\ \E q \in InitialQ : InitDqn("epsilon-greedy", q)
          /\ InitPolicy(Scale \div 10)

NextT ==
    \/ /\ strategy = "bandit"
       /\ \E action \in CallActions, reward \in CallRewards : Update(action, reward)
    \/ /\ strategy = "bandit"
       /\ SelectAction
    \/ \E a \in ActionIds : Explore(a)
    \/ Exploit
    \/ HandleRead
    \/ TrainerUpdate
    \/ LoseDatagram

SpecStrategies == InitT /\ [][NextT]_vars

----------------------------------------------------------------------------
(* The action catalog *)

\* the values of an option list, and the 0-based position of one of them
Configured(opts) == {opts[k] : k \in 1 .. Len(opts)}
IndexOf(opts, x) == (CHOOSE k \in 1 .. Len(opts) : opts[k] = x) - 1

\* the index of the SF is multiplied by the number of SF options
Encode_BySF(sf, tp) ==
    IF sf \in Configured(SFOptions) /\ tp \in Configured(TPOptions)
    THEN [err |-> "none",
          id |-> IndexOf(SFOptions, sf) * Len(SFOptions) + IndexOf(TPOptions, tp)]
    ELSE [err |-> "InvalidActionError", id |-> -1]

\* actionId = sfIndex * |TP options| + tpIndex
Encode(sf, tp) ==
    IF sf \in Configured(SFOptions) /\ tp \in Configured(TPOptions)
    THEN [err |-> "none",
          id |-> IndexOf(SFOptions, sf) * Len(TPOptions) + IndexOf(TPOptions, tp)]
    ELSE [err |-> "InvalidActionError", id |-> -1]

Decode(id) ==
    IF id >= 0 /\ id < Len(SFOptions) * Len(TPOptions)
    THEN [err |-> "none",
          sf |-> SFOptions[(id \div Len(TPOptions)) + 1],
          tp |-> TPOptions[(id % Len(TPOptions)) + 1]]
    ELSE [err |-> "InvalidActionError", sf |-> 0, tp |-> 0]

\* what the catalog is asked for: the configured values, and values next to
\* them that are not configured (TP 2 dBm is the power of the send_action
\* example)
SfInputs == 6 .. 13
TpInputs == {2, 5, 10, 15, 20, 25}
IdInputs == -1 .. action_space

notCat == <<coreVars, dqnVars, startVars, upVars, tagVars>>

CallEncode(sf, tp) ==
    /\ encReq' = [sf |-> sf, tp |-> tp]
    /\ encRes' = Encode(sf, tp)
    /\ UNCHANGED <<decReq, decRes>>
    /\ UNCHANGED notCat

CallDecode(id) ==
    /\ decReq' = id
    /\ decRes' = Decode(id)
    /\ UNCHANGED <<encReq, encRes>>
    /\ UNCHANGED notCat

InitK ==
    /\ InitPolicy(Scale \div 10)
    /\ InitContexts
    /\ InitSession
    /\ InitAdr("connected", 5, 14)
    /\ InitExt

NextK ==
    \/ \E sf \in SfInputs, tp \in TpInputs : CallEncode(sf, tp)
    \/ \E id \in IdInputs : CallDecode(id)

SpecCatalog == InitK /\ [][NextK]_vars

----------------------------------------------------------------------------
(* AdrRL::AdrRL() / StartSocketServer and handle_request, started on one
   host.  Both create a listening socket on port 8080 and block in accept;
   accept returns when a peer calls connect, which neither program does. *)

notStart == <<policyVars, srvVars, cliVars, netVars, countVars, ctxVars,
              dqnVars, catVars, upVars, tagVars>>

adrRest == <<peerOpen, toPeer, toAdr, newDataRate, newTxPower,
             devDR, devTP, prevDR, prevTP, lastOutcome, nPackets,
             terminatorAt>>

\* server_socket = socket(AF_INET, SOCK_STREAM, 0); when it returns -1
\* (no descriptor left) StartSocketServer returns
CppSocket ==
    /\ adrPc = "socket"
    /\ adrPc' \in {"bind", "idle"}
    /\ UNCHANGED <<adrSock, adrRest, startVars>>
    /\ UNCHANGED notStart

\* bind(server_socket, INADDR_ANY:8080): on failure StartSocketServer
\* returns and the constructor with it; client_socket was never assigned
CppBind ==
    /\ adrPc = "bind"
    /\ IF port8080 = "free"
       THEN /\ port8080' = "cpp"
            /\ adrPc' = "listen"
       ELSE /\ adrPc' = "idle"
            /\ UNCHANGED port8080
    /\ UNCHANGED <<adrSock, adrRest, pyPc>>
    /\ UNCHANGED notStart

\* listen(server_socket, 5), then the call of accept, which blocks
CppListen ==
    /\ adrPc = "listen"
    /\ adrPc' = "accept"
    /\ UNCHANGED <<adrSock, adrRest, startVars>>
    /\ UNCHANGED notStart

\* server_socket = socket.socket(AF_INET, SOCK_STREAM)
PySocket ==
    /\ pyPc = "socket"
    /\ pyPc' = "bind"
    /\ UNCHANGED <<adrVars, port8080>>
    /\ UNCHANGED notStart

\* server_socket.bind(('localhost', 8080)): OSError (address already in
\* use) is not caught and ends the program
PyBind ==
    /\ pyPc = "bind"
    /\ IF port8080 = "free"
       THEN /\ port8080' = "py"
            /\ pyPc' = "listen"
       ELSE /\ pyPc' = "failed"
            /\ UNCHANGED port8080
    /\ UNCHANGED adrVars
    /\ UNCHANGED notStart

\* server_socket.listen(5), then the call of accept, which blocks
PyListen ==
    /\ pyPc = "listen"
    /\ pyPc' = "accept"
    /\ UNCHANGED <<adrVars, port8080>>
    /\ UNCHANGED notStart

InitU ==
    /\ InitTagBuffer(0, 0, [bytes |-> <<>>, m_current |-> 0, m_end |-> 0])
    /\ InitPolicy(Scale \div 10)
    /\ InitContexts
    /\ InitSession
    /\ InitDqn("bandit", [a \in ActionIds |-> 0])
    /\ InitCatalog
    /\ InitUplink
    /\ pyPc = "socket"
    /\ port8080 = "free"
    /\ adrPc = "socket"
    /\ adrSock = "invalid"
    /\ peerOpen = FALSE
    /\ toPeer = 0
    /\ toAdr = <<>>
    /\ newDataRate = 0
    /\ newTxPower = 0
    /\ \E dr \in InitialDR, tp \in InitialTP :
          /\ devDR = dr /\ prevDR = dr
          /\ devTP = tp /\ prevTP = tp
    /\ lastOutcome = "none"
    /\ nPackets = 0
    /\ terminatorAt = -1

NextU ==
    \/ CppSocket
    \/ CppBind
    \/ CppListen
    \/ PySocket
    \/ PyBind
    \/ PyListen
    \/ HandleReceivedPacket
    \/ AdrReceiveFail

SpecStartup == InitU /\ [][NextU]_vars

----------------------------------------------------------------------------
(* main of the NS-3 client with one end device ("A modified code for socket
   communication from NS3 side"), and the RL agent at port 6000 *)

\* the action ids the agent answers with
AgentActions == {0, 5, action_space - 1}

notUp == <<coreVars, dqnVars, catVars, startVars, tagVars>>

\* SendPacket(device): the end device sends one uplink packet, with the
\* action it holds
SendPacket ==
    /\ transmissions' = transmissions + 1
    /\ txStale' = (response >= 0 /\ edAction # response)

\* connect(rlSocket, 127.0.0.1:6000); the result is not looked at
UpConnect ==
    /\ upPc = "connect"
    /\ agentOpen' \in {TRUE, FALSE}
    /\ upPc' = IF upI < MaxIter THEN "send" ELSE "close"
    /\ UNCHANGED <<upI, toAgent, fromAgent, response, transmissions,
                   roundTrips, scheduled, edAction, txStale>>
    /\ UNCHANGED notUp

\* loop body up to the recv: SendPacket(endDevice), then the statistics
\* are written to the socket
UpSend ==
    /\ upPc = "send"
    /\ SendPacket
    /\ toAgent' = IF agentOpen THEN toAgent + 1 ELSE toAgent
    /\ upPc' = "recv"
    /\ UNCHANGED <<upI, agentOpen, fromAgent, response, roundTrips,
                   scheduled, edAction>>
    /\ UNCHANGED notUp

\* ReceiveFromRLAgent returns, the response is printed, one more SendPacket
\* is scheduled at 2 s and the loop goes on
UpRecv ==
    /\ upPc = "recv"
    /\ \/ /\ fromAgent # <<>>
          /\ response' = Head(fromAgent)
          /\ fromAgent' = Tail(fromAgent)
          /\ roundTrips' = roundTrips + 1
       \/ /\ fromAgent = <<>> /\ ~agentOpen
          /\ response' = -1
          /\ UNCHANGED <<fromAgent, roundTrips>>
    /\ scheduled' = scheduled + 1
    /\ upI' = upI + 1
    /\ upPc' = IF upI + 1 < MaxIter THEN "send" ELSE "close"
    /\ UNCHANGED <<agentOpen, toAgent, transmissions, edAction, txStale>>
    /\ UNCHANGED notUp

\* close(rlSocket), then Simulator::Run() is entered
UpClose ==
    /\ upPc = "close"
    /\ upPc' = "run"
    /\ UNCHANGED <<upI, agentOpen, toAgent, fromAgent, response,
                   transmissions, roundTrips, scheduled, edAction, txStale>>
    /\ UNCHANGED notUp

\* Simulator::Run() runs one scheduled SendPacket event
UpRunEvent ==
    /\ upPc = "run"
    /\ scheduled > 0
    /\ SendPacket
    /\ scheduled' = scheduled - 1
    /\ UNCHANGED <<upPc, upI, agentOpen, toAgent, fromAgent, response,
                   roundTrips, edAction>>
    /\ UNCHANGED notUp

\* the event list is empty: Simulator::Run() returns and main ends
UpFinish ==
    /\ upPc = "run"
    /\ scheduled = 0
    /\ upPc' = "done"
    /\ UNCHANGED <<upI, agentOpen, toAgent, fromAgent, response,
                   transmissions, roundTrips, scheduled, edAction, txStale>>
    /\ UNCHANGED notUp

\* the agent reads one statistics text and answers with an action id
AgentReply(a) ==
    /\ agentOpen
    /\ toAgent > 0
    /\ toAgent' = toAgent - 1
    /\ fromAgent' = Append(fromAgent, a)
    /\ UNCHANGED <<upPc, upI, agentOpen, response, transmissions,
                   roundTrips, scheduled, edAction, txStale>>
    /\ UNCHANGED notUp

\* the agent ends; its socket is closed
AgentClose ==
    /\ agentOpen
    /\ agentOpen' = FALSE
    /\ UNCHANGED <<upPc, upI, toAgent, fromAgent, response, transmissions,
                   roundTrips, scheduled, edAction, txStale>>
    /\ UNCHANGED notUp

InitL ==
    /\ InitTagBuffer(0, 0, [bytes |-> <<>>, m_current |-> 0, m_end |-> 0])
    /\ InitPolicy(Scale \div 10)
    /\ InitContexts
    /\ InitSession
    /\ InitAdr("connected", 5, 14)
    /\ InitDqn("bandit", [a \in ActionIds |-> 0])
    /\ InitCatalog
    /\ InitStartup
    /\ upPc = "connect"
    /\ upI = 0
    /\ agentOpen = FALSE
    /\ toAgent = 0
    /\ fromAgent = <<>>
    /\ response = -2
    /\ transmissions = 0
    /\ roundTrips = 0
    /\ scheduled = 0
    /\ edAction = 0
    /\ txStale = FALSE

NextL ==
    \/ UpConnect
    \/ UpSend
    \/ UpRecv
    \/ UpClose
    \/ UpRunEvent
    \/ UpFinish
    \/ \E a \in AgentActions : AgentReply(a)
    \/ AgentClose

SpecUplink == InitL /\ [][NextL]_vars

----------------------------------------------------------------------------
(* TagBuffer: the operations, on a TagBuffer tb given as its region, its
   m_current, its m_end and st, "aborted" once an NS_ASSERT of it failed
   (the program is stopped there and nothing after it runs).  A value of
   16 * n bits is a sequence of n limbs of 16 bits, the lowest first
   (uint16_t data = b is <<b>>, uint32_t data = b is <<b, 0>>); a uint8_t
   is a number. *)

ByteOf_MostFirst(data, k) ==
    LET j == (2 * Len(data)) - 1 - k
    IN (data[(j \div 2) + 1] \div (IF j % 2 = 0 THEN 1 ELSE 256)) % 256

\* (data >> (8 * k)) & 0xff
ByteOf(data, k) ==
    (data[(k \div 2) + 1] \div (IF k % 2 = 0 THEN 1 ELSE 256)) % 256

\* data <<= 8; data |= b; for a byte b: the shift is made in the width of
\* data, its highest byte is shifted out
ShiftIn(data, b) ==
    LET RECURSIVE BitOr(_, _)
        BitOr(x, y) ==
            IF x = 0 THEN y
            ELSE IF y = 0 THEN x
            ELSE (2 * BitOr(x \div 2, y \div 2))
                     + (IF x % 2 = 1 \/ y % 2 = 1 THEN 1 ELSE 0)
        shifted == [i \in DOMAIN data |->
                      ((data[i] % 256) * 256)
                          + (IF i > 1 THEN data[i - 1] \div 256 ELSE 0)]
    IN [shifted EXCEPT ![1] = ((@ \div 256) * 256) + BitOr(@ % 256, b)]

\* TagBuffer::WriteU8
WriteU8(tb, v) ==
    IF tb.st # "ok" THEN tb
    ELSE IF ~(tb.m_current + 1 <= tb.m_end) THEN [tb EXCEPT !.st = "aborted"]
    ELSE [tb EXCEPT !.region[tb.m_current] = v, !.m_current = @ + 1]

\* TagBuffer::WriteU16
WriteU16(tb, data) ==
    WriteU8(WriteU8(tb, ByteOf(data, 0)), ByteOf(data, 1))

\* TagBuffer::WriteU32
WriteU32(tb, data) ==
    WriteU8(WriteU8(WriteU8(WriteU8(tb, ByteOf(data, 0)), ByteOf(data, 1)),
                    ByteOf(data, 2)), ByteOf(data, 3))

\* TagBuffer::WriteU64
WriteU64(tb, data) ==
    LET b3 == WriteU8(WriteU8(WriteU8(WriteU8(tb, ByteOf(data, 0)),
                                      ByteOf(data, 1)),
                              ByteOf(data, 2)), ByteOf(data, 3))
    IN WriteU8(WriteU8(WriteU8(WriteU8(b3, ByteOf(data, 4)), ByteOf(data, 5)),
                       ByteOf(data, 6)), ByteOf(data, 7))

\* TagBuffer::Write(buffer, size): loop(t, i) is the loop from its i-th
\* turn on
Write_(tb, buffer, size) ==
    LET RECURSIVE loop(_, _)
        loop(t, i) ==
            IF i < size THEN loop(WriteU8(t, buffer[i + 1]), i + 1) ELSE t
    IN loop(tb, 0)

\* TagBuffer::ReadU8: the TagBuffer after the call and the value returned
ReadU8(tb) ==
    IF tb.st # "ok" THEN [tb |-> tb, v |-> 0]
    ELSE IF ~(tb.m_current + 1 <= tb.m_end)
    THEN [tb |-> [tb EXCEPT !.st = "aborted"], v |-> 0]
    ELSE [tb |-> [tb EXCEPT !.m_current = @ + 1], v |-> tb.region[tb.m_current]]

\* TagBuffer::ReadU16
ReadU16(tb) ==
    LET r0 == ReadU8(tb)
        r1 == ReadU8(r0.tb)
    IN [tb |-> r1.tb, v |-> ShiftIn(<<r1.v>>, r0.v)]

\* TagBuffer::ReadU32
ReadU32(tb) ==
    LET r0 == ReadU8(tb)
        r1 == ReadU8(r0.tb)
        r2 == ReadU8(r1.tb)
        r3 == ReadU8(r2.tb)
    IN [tb |-> r3.tb,
        v |-> ShiftIn(ShiftIn(ShiftIn(<<r3.v, 0>>, r2.v), r1.v), r0.v)]

\* TagBuffer::ReadU64
ReadU64(tb) ==
    LET r0 == ReadU8(tb)
        r1 == ReadU8(r0.tb)
        r2 == ReadU8(r1.tb)
        r3 == ReadU8(r2.tb)
        r4 == ReadU8(r3.tb)
        r5 == ReadU8(r4.tb)
        r6 == ReadU8(r5.tb)
        r7 == ReadU8(r6.tb)
        hi == ShiftIn(ShiftIn(ShiftIn(<<r7.v, 0, 0, 0>>, r6.v), r5.v), r4.v)
    IN [tb |-> r7.tb,
        v |-> ShiftIn(ShiftIn(ShiftIn(ShiftIn(hi, r3.v), r2.v), r1.v), r0.v)]

\* TagBuffer::Read(buffer, size): std::memcpy copies size bytes from
\* m_current on, m_current is moved, and then the assertion is made.  The
\* offsets of the bytes copied are returned
Read(tb, size) ==
    [tb |-> [tb EXCEPT !.m_current = @ + size,
                       !.st = IF tb.m_current + size <= tb.m_end
                              THEN "ok" ELSE "aborted"],
     copied |-> tb.m_current .. (tb.m_current + size - 1)]

CanTrim_Unchecked(tb, trim) == TRUE

\* NS_ASSERT(m_current <= (m_end - trim))
CanTrim(tb, trim) == tb.m_current <= tb.m_end - trim

\* TagBuffer::TrimAtEnd
TrimAtEnd(tb, trim) ==
    IF ~CanTrim(tb, trim) THEN [tb EXCEPT !.st = "aborted"]
    ELSE [tb EXCEPT !.m_end = @ - trim]

Remaining_ToEnd(o) == o.m_end

\* uintptr_t size = o.m_end - o.m_current
Remaining(o) == o.m_end - o.m_current

\* TagBuffer::CopyFrom(o)
CopyFrom(tb, o) ==
    IF ~(o.m_end >= o.m_current) \/ ~(tb.m_end >= tb.m_current)
    THEN [tb EXCEPT !.st = "aborted"]
    ELSE LET size == Remaining(o)
         IN IF ~(size <= tb.m_end - tb.m_current)
            THEN [tb EXCEPT !.st = "aborted"]
            ELSE [tb EXCEPT
                    !.region = [i \in DOMAIN tb.region |->
                                  IF tb.m_current <= i /\ i < tb.m_current + size
                                  THEN o.bytes[o.m_current + (i - tb.m_current) + 1]
                                  ELSE tb.region[i]],
                    !.m_current = @ + size]

----------------------------------------------------------------------------
(* TagBuffer: calls on one TagBuffer over the region *)

This == [region |-> region, m_current |-> m_current, m_end |-> m_end,
         st |-> tagSt]

\* the call op(arg) on the TagBuffer, made while the program runs: it
\* leaves the TagBuffer as tb; copied is the set of offsets a memcpy of it
\* copied from or to the region, wr and rd what is known of the last
\* WriteU8/16/32/64 and ReadU8/16/32/64 after it
Call(op, arg, tb, copied, wr, rd) ==
    /\ tagSt = "ok"
    /\ nOps < MaxOps
    /\ region' = tb.region
    /\ m_current' = tb.m_current
    /\ m_end' = tb.m_end
    /\ tagSt' = tb.st
    /\ wrote' = wr
    /\ readBack' = rd
    /\ lastOp' = [op |-> op, arg |-> arg, at |-> m_current, end |-> m_end,
                  region |-> region, copied |-> copied]
    /\ nOps' = nOps + 1
    /\ UNCHANGED source
    /\ UNCHANGED <<coreVars, dqnVars, catVars, startVars, upVars>>

InitG ==
    /\ InitPolicy(Scale \div 10)
    /\ InitContexts
    /\ InitSession
    /\ InitAdr("connected", 5, 14)
    /\ InitDqn("bandit", [a \in ActionIds |-> 0])
    /\ InitCatalog
    /\ InitStartup
    /\ InitUplink
    /\ \E start \in 0 .. 1, end \in {4, Capacity}, o \in Sources :
          InitTagBuffer(start, end, o)

\* one call of a member function; Read(buffer, size) is given a buffer of
\* the caller, and the bytes behind m_end that the model lets it reach are
\* bytes of the region; CopyFrom(o) is given a copy of the caller's
\* TagBuffer source; TagBuffer(start, end) is the owner of the region
\* making a new TagBuffer over it, with start <= end, in place of the one
\* it had
NextG ==
    \/ \E v \in {165, 255} :
          LET tb == WriteU8(This, v)
          IN Call("WriteU8", <<v>>, tb, {},
                  IF tb.st = "ok" THEN [w |-> 8, at |-> m_current, v |-> <<v>>]
                  ELSE NoValue,
                  NoValue)
    \/ \E data \in {<<4660>>, <<65280>>} :
          LET tb == WriteU16(This, data)
          IN Call("WriteU16", data, tb, {},
                  IF tb.st = "ok" THEN [w |-> 16, at |-> m_current, v |-> data]
                  ELSE NoValue,
                  NoValue)
    \/ \E data \in {<<22136, 4660>>} :
          LET tb == WriteU32(This, data)
          IN Call("WriteU32", data, tb, {},
                  IF tb.st = "ok" THEN [w |-> 32, at |-> m_current, v |-> data]
                  ELSE NoValue,
                  NoValue)
    \/ \E data \in {<<52719, 35243, 17767, 291>>} :
          LET tb == WriteU64(This, data)
          IN Call("WriteU64", data, tb, {},
                  IF tb.st = "ok" THEN [w |-> 64, at |-> m_current, v |-> data]
                  ELSE NoValue,
                  NoValue)
    \/ \E size \in {0, 2, 3} :
          Call("Write", <<size>>, Write_(This, <<222, 173, 190>>, size), {},
               NoValue, NoValue)
    \/ LET r == ReadU8(This)
       IN Call("ReadU8", <<>>, r.tb, {}, wrote,
               IF r.tb.st = "ok" THEN [w |-> 8, at |-> m_current, v |-> <<r.v>>]
               ELSE NoValue)
    \/ LET r == ReadU16(This)
       IN Call("ReadU16", <<>>, r.tb, {}, wrote,
               IF r.tb.st = "ok" THEN [w |-> 16, at |-> m_current, v |-> r.v]
               ELSE NoValue)
    \/ LET r == ReadU32(This)
       IN Call("ReadU32", <<>>, r.tb, {}, wrote,
               IF r.tb.st = "ok" THEN [w |-> 32, at |-> m_current, v |-> r.v]
               ELSE NoValue)
    \/ LET r == ReadU64(This)
       IN Call("ReadU64", <<>>, r.tb, {}, wrote,
               IF r.tb.st = "ok" THEN [w |-> 64, at |-> m_current, v |-> r.v]
               ELSE NoValue)
    \/ \E size \in {0, 2, 3} :
          /\ m_current + size <= Capacity
          /\ Call("Read", <<size>>, Read(This, size).tb,
                  Read(This, size).copied, wrote, readBack)
    \/ \E trim \in 0 .. 2 :
          Call("TrimAtEnd", <<trim>>, TrimAtEnd(This, trim), {}, wrote,
               readBack)
    \/ LET tb == CopyFrom(This, source)
       IN Call("CopyFrom", <<>>, tb,
               IF tb.st = "ok"
               THEN m_current .. (m_current + Remaining(source) - 1)
               ELSE {},
               NoValue, NoValue)
    \/ \E start \in 0 .. 1, end \in {m_end, Capacity} :
          /\ start <= end
          /\ Call("TagBuffer", <<start, end>>,
                  [This EXCEPT !.m_current = start, !.m_end = end], {},
                  wrote, readBack)

SpecTagBuffer == InitG /\ [][NextG]_vars

----------------------------------------------------------------------------
(* Properties of the policy, checked under SpecPolicy *)

AllFinite(ps) ==
    /\ \A i \in Arms : IsFinite(ps.weights[i])
    /\ \A i \in Arms : ps.probabilities[i] # NaN

\* C1: in every reachable PolicyState the probabilities sum to 1 (within
\* the rounding of one unit per arm) and every entry lies in [0, 1].
C1_ProbabilitiesAreDistribution ==
    /\ \A i \in Arms :
          probabilities[i] # NaN /\ probabilities[i] >= 0 /\ probabilities[i] <= Scale
    /\ Sum(probabilities) >= Scale - NumActions
    /\ Sum(probabilities) <= Scale + NumActions

\* C2: in every reachable PolicyState every probabilities[i] is a number
\* at least gamma / A, so the divisor of update is never zero nor below
\* the floor.
C2_ProbabilityFloor ==
    \A i \in Arms :
        probabilities[i] # NaN /\ probabilities[i] >= gamma \div NumActions

\* the range rewards are expected in, and the nearest bound of it
RewardRange == 0 .. 1
Clamp(r) == IF r < 0 THEN 0 ELSE IF r > 1 THEN 1 ELSE r

\* C17: update(a, r) with a outside [0, A), negative a included, raises
\* the invalid-action error and leaves weights, probabilities and
\* action_counts as they were.
C17_InvalidActionRejected ==
    \A a \in CallActions \ Arms, r \in CallRewards :
        /\ Called(PolicyState, gamma, a, r).exc = "IndexError"
        /\ Called(PolicyState, gamma, a, r).ps = PolicyState

\* C18: update(a, r) with a reward outside the expected range leaves the
\* weights update(a, r') leaves, r' the nearest bound of the range, and
\* the probabilities it leaves can be selected from.
C18_RewardClamped ==
    \A a \in Arms, r \in CallRewards \ RewardRange :
        Sum(action_counts) < MaxUpdates =>
            /\ Called(PolicyState, gamma, a, r).ps.weights
                  = Called(PolicyState, gamma, a, Clamp(r)).ps.weights
            /\ \A i \in Arms : Called(PolicyState, gamma, a, r).ps.probabilities[i] # NaN

\* the rewards the two-update comparison is made for; it is made from the
\* policy states on which update may still be called
PairRewards == {1, HugeReward}

\* the policy state after update(a, ra) followed by update(b, rb)
TwoUpdates(ps, a, ra, b, rb) ==
    update(update(ps, gamma, a, ra), gamma, b, rb)

OrdersAgree(ps, g, a, b, ab, ba) ==
    /\ \A i \in Arms \ {a, b} :
          ab.weights[i] = ps.weights[i] /\ ba.weights[i] = ps.weights[i]
    /\ ab.action_counts = ba.action_counts
    /\ (g = Scale /\ AllFinite(ab) /\ AllFinite(ba)) => ab.weights = ba.weights

C4_UpdateFrame ==
    [][\A i \in Arms :
          action_counts'[i] = action_counts[i] => weights'[i] = weights[i]]_vars

\* C4 witness: an arm has been updated and its weight changed while another
\* arm was never updated.
C4_Witness ==
    \E a \in Arms, i \in Arms :
        /\ action_counts[a] > 0 /\ weights[a] # 0
        /\ action_counts[i] = 0 /\ weights[i] = 0

\* C21: with gamma = 1 every probabilities[i] is 1/A in every reachable
\* PolicyState, whatever the arms and rewards of the updates were.
C21_UniformWhenGammaOne ==
    gamma = Scale =>
        \A i \in Arms : probabilities[i] = RDiv(Scale, NumActions)

\* |x - y| <= d
Near(x, y, d) == x - y <= d /\ y - x <= d

\* C22: with A = 3, gamma = 0.5 and the initial weights [1, 1, 1], one
\* update(0, 1) has the estimated reward 3 (1 / (1/3)), leaves the weights
\* [1.6487, 1, 1] (ln 1.6487 = 0.5000) and the probabilities [0.3925,
\* 0.3037, 0.3037] to within one unit of the fourth decimal, arms 1 and 2
\* with equal probability.
C22_NumericScenario ==
    (NumActions = 3 /\ gamma = Scale \div 2 /\ Sum(action_counts) = 0) =>
        LET out == Called(PolicyState, gamma, 0, 1).ps
        IN /\ Near(RDiv(Scale * Scale, probabilities[0]), 3 * Scale, 5)
           /\ Near(out.weights[0], 5000, 2)
           /\ out.weights[1] = 0 /\ out.weights[2] = 0
           /\ Near(out.probabilities[0], 3925, 1)
           /\ Near(out.probabilities[1], 3037, 1)
           /\ out.probabilities[1] = out.probabilities[2]
           /\ out.action_counts = [i \in Arms |-> IF i = 0 THEN 1 ELSE 0]

\* C22 witness: the scenario has run: gamma is 0.5, arm 0 alone was updated
\* once and its weight is e^0.5.
C22_Witness ==
    /\ NumActions = 3 /\ gamma = Scale \div 2
    /\ action_counts = [i \in Arms |-> IF i = 0 THEN 1 ELSE 0]
    /\ Near(weights[0], 5000, 2)
    /\ Near(probabilities[0], 3925, 1)

\* C24: whatever select_action (bandit) or the action selection of the
\* training loop (epsilon-greedy) returns is an integer in [0, A), A the
\* number of actions of that strategy, and the bandit returns only an arm
\* whose probability is a number above 0.
C24_SelectedInRange ==
    [][/\ next_action' # next_action =>
             /\ next_action' \in Arms
             /\ probabilities[next_action'] # NaN
             /\ probabilities[next_action'] > 0
       /\ trainerAction' # trainerAction => trainerAction' \in ActionIds]_vars

\* C24 witness: the bandit returned an arm after an update made the
\* probabilities unequal.
C24_Witness ==
    /\ strategy = "bandit"
    /\ next_action \in Arms
    /\ \E i \in Arms : probabilities[i] # probabilities[next_action]
    /\ raised = "none"

\* C31: a call update(b, r) raises the count of arm b by one and leaves
\* the count of every other arm as it was (so action_counts[a] is the
\* number of calls made with action a, and the sum the number of calls that
\* were applied), and select_action leaves action_counts, weights and
\* probabilities as they were.
C31_CountsCalls ==
    [][/\ \A b \in CallActions, r \in CallRewards : \A a \in Arms :
             Called(PolicyState, gamma, b, r).ps.action_counts[a]
                 = action_counts[a]
                     + (IF b = a /\ Called(PolicyState, gamma, b, r).exc = "none"
                        THEN 1 ELSE 0)
       /\ next_action' # next_action =>
             /\ action_counts' = action_counts
             /\ weights' = weights
             /\ probabilities' = probabilities]_vars

\* C23: in every reachable PolicyState every weights[i] is strictly
\* positive: it is a number and it is not 0.0 (NegInf is the logarithm of
\* a weight that underflowed to 0.0).
C23_WeightsPositive ==
    \A i \in Arms : weights[i] # NegInf /\ weights[i] # NaN

----------------------------------------------------------------------------
(* Properties of the action catalog, checked under SpecCatalog *)

\* C25: Encode succeeds on every configured pair and Decode gives the pair
\* back; Decode succeeds on every id in [0, A) and Encode gives the id
\* back; the ids of the configured pairs are exactly 0 .. |SF|*|TP| - 1,
\* which are the 24 ids of the action space.
C25_EncodeDecodeBijection ==
    /\ (encReq.sf \in Configured(SFOptions) /\ encReq.tp \in Configured(TPOptions))
          => /\ encRes.err = "none"
             /\ Decode(encRes.id) = [err |-> "none", sf |-> encReq.sf, tp |-> encReq.tp]
    /\ decReq \in ActionIds
          => /\ decRes.err = "none"
             /\ Encode(decRes.sf, decRes.tp) = [err |-> "none", id |-> decReq]
    /\ {Encode(sf, tp).id : sf \in Configured(SFOptions), tp \in Configured(TPOptions)}
          = 0 .. (Len(SFOptions) * Len(TPOptions) - 1)
    /\ Len(SFOptions) * Len(TPOptions) = action_space

\* C25 witness: the last configured pair was encoded to the last id, and an
\* id in the middle was decoded.
C25_Witness ==
    /\ encReq = [sf |-> 12, tp |-> 20] /\ encRes = [err |-> "none", id |-> 23]
    /\ decReq = 6 /\ decRes = [err |-> "none", sf |-> 8, tp |-> 15]

----------------------------------------------------------------------------
(* Properties of the server and its clients, checked under SpecSession *)

\* C5: for every observation the handler processes, update is applied
\* first, select_action is then called on the updated probabilities, and
\* the action it returned, and no other value, is what is written back.
C5_UpdateSelectSend ==
    /\ [](/\ srvPc = "select" => steps = <<"update">>
          /\ srvPc = "send" =>
                steps = <<"update", "select">> /\ next_action \in Selectable
          /\ srvPc \in {"select", "send"} =>
                Sum(action_counts) = Sum(nAnswered) + 1
          /\ srvPc \in {"accept", "recv"} => Sum(action_counts) = Sum(nAnswered))
    /\ [][\A c \in Clients :
             nAnswered'[c] # nAnswered[c] =>
                /\ srvPc = "send" /\ c = srvConn
                /\ steps' = <<"update", "select", "send">>
                /\ assigned'[c] = next_action
                /\ ~cliClosed[c] => toCli'[c] = Append(toCli[c], next_action)]_vars

\* C5 witness: an observation went through update, select and send, and the
\* decision on the wire is the selected action.
C5_Witness ==
    /\ srvConn \in Clients
    /\ steps = <<"update", "select", "send">>
    /\ toCli[srvConn] # <<>>
    /\ toCli[srvConn][Len(toCli[srvConn])] = next_action
    /\ action_counts[Index(lastObs.a)] > 0

\* C6: every observation the server has read is answered by exactly one
\* decision before the next one is read: as long as what was read are
\* observations ("<int>,<int>"), the decisions written equal the
\* observations read, but for the one the handler is working on.
C6_EveryObservationAnswered ==
    (raised = "ValueError" => lastObs.ok) =>
        \A c \in Clients :
            /\ nRead[c] - nAnswered[c] \in {0, 1}
            /\ nRead[c] - nAnswered[c] = 1 =>
                  srvConn = c /\ srvPc \in {"select", "send"}

\* C7: no client ever has two observations written and not yet answered.
C7_OneOutstanding == \A c \in Clients : Outstanding(c) <= 1

\* C8: an observation written while the server had not yet answered an
\* earlier one of the same client is discarded when the server reads it:
\* the policy state is the same after the read and the handler is back at
\* its recv.
C8_DuplicateDiscarded ==
    [][\A c \in Clients :
          (/\ nRead'[c] = nRead[c] + 1
           /\ lastObs'.dup /\ lastObs'.ok
           /\ lastObs'.a >= -NumActions /\ lastObs'.a < NumActions) =>
              /\ weights' = weights
              /\ probabilities' = probabilities
              /\ action_counts' = action_counts
              /\ srvPc' = "recv"]_vars

\* C9: an observation whose action is not the decision
\* outstanding for its client (none was assigned, or another one) is
\* discarded: the policy state is the same after the read and the handler
\* is back at its recv.
C9_OnlyAssignedResolved ==
    [][\A c \in Clients :
          (nRead'[c] # nRead[c] /\ lastObs'.ok /\ assigned[c] # lastObs'.a) =>
              /\ weights' = weights
              /\ probabilities' = probabilities
              /\ action_counts' = action_counts
              /\ srvPc' = "recv"]_vars

\* C11: a client that waits for a decision can always go on by itself:
\* its recv returns (with an answer, or with a failure once the wait is
\* over) also when the server never writes anything.
C11_WaitIsBounded ==
    \A c \in Clients :
        cliPc[c] = "recv" =>
            ENABLED ((\E k \in 1 .. MaxSends : ClientRecv(c, k)) \/ ClientRecvFail(c))

\* C12: while the handler is blocked in recv on the connection of one
\* client, with nothing to read, an observation written by another
\* connected client can be taken up by the server.
C12_BlockedReadBlocksOnlyItsSession ==
    \A s1 \in Clients, s2 \in Clients :
        (/\ s1 # s2
         /\ srvPc = "recv" /\ srvConn = s1
         /\ toSrv[s1] = <<>> /\ ~cliClosed[s1]
         /\ link[s2] = "backlog" /\ toSrv[s2] # <<>>) =>
            ENABLED (NextS /\ (nRead'[s2] # nRead[s2] \/ link'[s2] # link[s2]))


\* C14: the observations of one client are applied and answered in the
\* order it wrote them: the server always reads the oldest one not yet
\* read, and every decision answers the oldest one not yet answered.
C14_ArrivalOrder ==
    /\ [][\A c \in Clients :
             nRead'[c] # nRead[c] => lastObs'.seq = nRead[c] + 1]_vars
    /\ [][\A c \in Clients :
             nAnswered'[c] # nAnswered[c] =>
                /\ nAnswered'[c] = nAnswered[c] + 1
                /\ lastObs.seq = nAnswered[c] + 1]_vars

\* C14 witness: the second observation of a client has been applied and
\* answered after its first one.
C14_Witness ==
    /\ srvConn \in Clients
    /\ nAnswered[srvConn] = 2
    /\ lastObs.seq = 2
    /\ steps = <<"update", "select", "send">>

\* C15: a text that is not "<int>,<int>" is dropped alone: when the server
\* has read it, the policy is as before, the connection is open and the
\* handler is back at its recv, the process running.
C15_MalformedDropped ==
    [][\A c \in Clients :
          (nRead'[c] = nRead[c] + 1 /\ ~lastObs'.ok) =>
              /\ srvPc' = "recv" /\ srvConn' = c
              /\ ~srvClosed'[c]
              /\ raised' = "none"
              /\ weights' = weights
              /\ probabilities' = probabilities
              /\ action_counts' = action_counts]_vars

\* C16: a text that holds the action and lacks the reward is applied as
\* update(action, 0), and the handler goes on to select and send on the
\* open connection.
C16_MissingRewardIsZero ==
    [][\A c \in Clients :
          (nRead'[c] = nRead[c] + 1 /\ lastObs'.n = 1 /\ IndexOk(lastObs'.a)) =>
              /\ weights' = update(PolicyState, gamma, lastObs'.a, 0).weights
              /\ action_counts' = update(PolicyState, gamma, lastObs'.a, 0).action_counts
              /\ srvPc' = "select"
              /\ ~srvClosed'[c]]_vars

\* C27: every recv of the handler returns exactly one text a client wrote
\* with one send: never two or more of them run together.
C27_OneMessagePerReceive ==
    [][\A c \in Clients : nRead'[c] - nRead[c] <= 1]_vars

\* C19: when the peer has closed and the handler leaves its recv, only
\* that session ends: main is back at accept, the policy is as it was and
\* no other connection is touched.
C19_CloseEndsOnlyThatSession ==
    [][(/\ srvPc = "recv"
        /\ cliClosed[srvConn] /\ toSrv[srvConn] = <<>>
        /\ srvPc' # "recv") =>
            /\ srvPc' = "accept"
            /\ weights' = weights
            /\ probabilities' = probabilities
            /\ \A d \in Clients \ {srvConn} : srvClosed'[d] = srvClosed[d]]_vars

\* C13: select_action only reads probabilities that are the fully
\* recomputed, renormalised result for the weights as they are, no context
\* is inside update while another is about to select, and no two contexts
\* are inside update at the same time.
C13_NoTornRead ==
    /\ \A c \in Clients :
          hPc[c] = "select" =>
              /\ probabilities = Recompute(gamma, weights)
              /\ \A d \in Clients : hPc[d] \notin InUpdate
    /\ Cardinality({c \in Clients : hPc[c] \in InUpdate}) <= 1

\* C13 witness: a second connection is at select_action after its update,
\* the first one having been served and closed.
C13_Witness ==
    \E c \in Clients, d \in Clients :
        /\ hPc[c] = "select" /\ hPc[d] = "closed"
        /\ Sum(action_counts) = 2
        /\ \E i \in Arms : weights[i] # 0

----------------------------------------------------------------------------
(* Properties of AdrRL, checked under SpecAdr *)

\* C10: when a request ends without a valid decision (failed receive or a
\* reply that does not parse), the device is back to idle with the data
\* rate and power it had before the request.
C10_FallbackIsPrevious ==
    (adrPc = "idle" /\ lastOutcome \in {"failed", "garbage", "tpOnly"}) =>
        (devDR = prevDR /\ devTP = prevTP)

\* C20: when StartSocketServer failed (no connection was established), no
\* packet is ever handled and no send or recv is attempted on the socket.
C20_NoTrafficWithoutConnection ==
    adrSock = "invalid" => (nPackets = 0 /\ adrPc = "idle")

\* C32: the index at which RequestTPDRFromPython writes the string
\* terminator after a receive is inside the 1024-byte buffer, whatever
\* number of bytes (1 up to the requested maximum) the receive returned.
C32_TerminatorInsideBuffer ==
    terminatorAt < BufferSize

----------------------------------------------------------------------------
(* Properties of the start-up of AdrRL and handle_request, checked under
   SpecStartup *)

\* C28: once both programs have made their start-up calls, a connection
\* between them exists, and every packet AdrRL has handled was answered by
\* one full TP/DR reply, which was applied.
C28_ConnectedAndServed ==
    /\ (adrPc \notin {"socket", "bind", "listen"}
        /\ pyPc \notin {"socket", "bind", "listen"}) => adrSock = "connected"
    /\ (adrPc = "idle" /\ nPackets > 0) => lastOutcome = "full"

----------------------------------------------------------------------------
(* Properties of the NS-3 client main, checked under SpecUplink *)

\* C29: while the agent is connected and answering, every uplink
\* transmission has its own round trip (at most the last transmission is
\* still waiting for its response, and none is when main has ended), and a
\* transmission made after a response was received uses the action of that
\* response.
C29_OneRoundTripPerUplink ==
    agentOpen =>
        /\ transmissions - roundTrips \in {0, 1}
        /\ upPc = "done" => transmissions = roundTrips
        /\ ~txStale

----------------------------------------------------------------------------
(* Properties of the training loop with LoRaWANServer, checked under
   SpecStrategies *)

\* C33: in every iteration of the training loop one action is sent and
\* then one reward is consumed, the reward being the answer to the action
\* of that iteration, and the loop never waits for a reward that is not
\* coming: while it waits in recvfrom, exactly one datagram of the current
\* iteration (its action, or the reward answering it) is on its way, and
\* outside recvfrom nothing is.
C33_OneRewardPerAction ==
    strategy = "epsilon-greedy" =>
        /\ tPc = "recvfrom" => Len(toNs3) + Len(toTrainer) = 1
        /\ tPc # "recvfrom" => (toNs3 = <<>> /\ toTrainer = <<>>)
        /\ \A i \in DOMAIN toNs3 :
              toNs3[i].ep = episode /\ toNs3[i].action = trainerAction
        /\ \A i \in DOMAIN toTrainer : toTrainer[i].ep = episode

----------------------------------------------------------------------------
(* Properties of TagBuffer, checked under SpecTagBuffer *)

\* C34: a value written with WriteU8/16/32/64 lies in the region with its
\* least significant byte first (each pair of bytes from the start on makes
\* up one 16-bit limb of the value, low byte first), and the matching Read
\* over the same bytes from the same start returns the written value.
C34_RoundTrip ==
    /\ wrote.w = 8 => region[wrote.at] = wrote.v[1]
    /\ wrote.w > 8 =>
          \A j \in 1 .. Len(wrote.v) :
              region[wrote.at + (2 * (j - 1))]
                  + (256 * region[wrote.at + (2 * (j - 1)) + 1]) = wrote.v[j]
    /\ (readBack.w # 0 /\ readBack.w = wrote.w /\ readBack.at = wrote.at) =>
          readBack.v = wrote.v

\* C34 witness: a 64-bit value written from offset 1 on was read back by
\* ReadU64 from offset 1.
C34_Witness ==
    /\ wrote.w = 64 /\ readBack.w = 64
    /\ wrote.at = 1 /\ readBack.at = 1
    /\ region[1] = 239 /\ region[8] = 1

\* C35: as long as no assertion failed, m_current <= m_end; WriteU8 and
\* ReadU8 move m_current by exactly 1 (the wider writes and reads by one
\* per byte) and leave m_end, and TrimAtEnd(trim) lowers m_end by exactly
\* trim and leaves m_current.
C35_CursorWithinEnd ==
    tagSt = "ok" =>
        /\ m_current <= m_end
        /\ lastOp.op \in {"WriteU8", "ReadU8"} =>
              (m_current = lastOp.at + 1 /\ m_end = lastOp.end)
        /\ lastOp.op \in {"WriteU16", "ReadU16"} =>
              (m_current = lastOp.at + 2 /\ m_end = lastOp.end)
        /\ lastOp.op \in {"WriteU32", "ReadU32"} =>
              (m_current = lastOp.at + 4 /\ m_end = lastOp.end)
        /\ lastOp.op \in {"WriteU64", "ReadU64"} =>
              (m_current = lastOp.at + 8 /\ m_end = lastOp.end)
        /\ lastOp.op = "TrimAtEnd" =>
              (m_end = lastOp.end - lastOp.arg[1] /\ m_current = lastOp.at)

\* C35 witness: after two bytes were written, TrimAtEnd(2) has lowered
\* m_end right down to m_current.
C35_Witness ==
    /\ tagSt = "ok" /\ nOps = 3
    /\ lastOp.op = "TrimAtEnd" /\ lastOp.arg = <<2>>
    /\ m_current = m_end /\ m_current > 1
    /\ wrote.w # 0

\* C36: Read(buffer, size) copies no byte at or behind m_end, and when size
\* is larger than m_end - m_current the call is stopped with nothing copied
\* and m_current where it was.
C36_ReadStaysBelowEnd ==
    lastOp.op = "Read" =>
        /\ \A i \in lastOp.copied : i < lastOp.end
        /\ lastOp.arg[1] > lastOp.end - lastOp.at =>
              /\ tagSt = "aborted"
              /\ lastOp.copied = {}
              /\ m_current = lastOp.at

\* C37: CopyFrom(o) copies the o.m_end - o.m_current bytes left in o to the
\* cursor of the destination and changes no other byte of it, moves the
\* destination's m_current by that number, leaves its m_end, and leaves the
\* caller's TagBuffer as it is; when the destination has less room than
\* that, the call is stopped by the assertion with nothing changed.
C37_CopyFromEffect ==
    /\ [](lastOp.op = "CopyFrom" =>
            LET n == source.m_end - source.m_current
                room == lastOp.end - lastOp.at
            IN /\ (0 <= n /\ n <= room) => tagSt = "ok"
               /\ tagSt = "ok" =>
                     /\ m_current = lastOp.at + n
                     /\ m_end = lastOp.end
                     /\ \A i \in DOMAIN region :
                           region[i] =
                               IF lastOp.at <= i /\ i < lastOp.at + n
                               THEN source.bytes[source.m_current
                                                    + (i - lastOp.at) + 1]
                               ELSE lastOp.region[i]
               /\ n > room =>
                     /\ tagSt = "aborted"
                     /\ region = lastOp.region
                     /\ m_current = lastOp.at
                     /\ m_end = lastOp.end)
    /\ [][source' = source]_vars

\* C37 witness: the three bytes left in the caller's TagBuffer were copied
\* to offset 1 of the destination.
C37_Witness ==
    /\ lastOp.op = "CopyFrom" /\ tagSt = "ok"
    /\ source.m_end - source.m_current = 3
    /\ lastOp.at = 1 /\ m_current = 4
    /\ region[1] = 34 /\ region[3] = 68

====
